---- MODULE Spec2Model ----
(***************************************************************************)
(* Model of the ci-rs build engine (src/src/core/build.rs, core.rs) driven *)
(* through the container gateway (src/src/docker/container.rs, docker.rs). *)
(*                                                                         *)
(* The Build struct is the variables state, completed_steps, fail_through  *)
(* and pipeline.  One action models one whole call of Build::progress for  *)
(* each arm of its match on self.state.  The answers of the container      *)
(* runtime (result of create, of start, and the items of the wait response *)
(* stream) are the inputs of a call and are drawn from small sets.         *)
(*                                                                         *)
(* requests, assigned, entry, wait_stream, empty_waits, extra_items and    *)
(* all_ok are history variables: they record what a call did (the gateway  *)
(* requests it issued, the values it assigned to self.state, the state it  *)
(* was entered in, the stream it consumed) and never influence the Build.  *)
(*                                                                         *)
(* The layers under the engine are modelled on their own, each with its    *)
(* own specification over the variables req (one request through           *)
(* Docker::process_request), upstream and out (a stream through the map of *)
(* Docker::wait_container) and pending, src, out, dstate, fr (a response   *)
(* body read by FramedRead through a decoder of docker/read.rs).  A        *)
(* specification holds the variables of the other layers at rest.          *)
(***************************************************************************)
EXTENDS Integers, Sequences, FiniteSets, TLC

\* longest pipeline explored
MaxSteps == 3
\* most wait response streams of a run that end without any item
MaxEmptyWaits == 1
\* most items, over a run, that wait response streams carry after their first
MaxExtraItems == 1
\* latest second at which the runtime answers a request
MaxDelay == 3
\* longest stream given to the map of wait_container
MaxUpstream == 2
\* most JSON values in a response body
MaxValues == 2
\* most frames and raw lines in a response body
MaxFrames == 2

VARIABLES pipeline, state, completed_steps, fail_through, panicked,
          requests, assigned, entry, wait_stream, empty_waits, extra_items,
          all_ok

VARIABLES req, upstream, pending, src, out, dstate, fr

build_vars == <<pipeline, state, completed_steps, fail_through, panicked,
                requests, assigned, entry, wait_stream, empty_waits,
                extra_items, all_ok>>
request_vars == <<req>>
stream_vars == <<upstream, pending, src, out, dstate, fr>>

vars == <<pipeline, state, completed_steps, fail_through, panicked,
          requests, assigned, entry, wait_stream, empty_waits, extra_items,
          all_ok, req, upstream, pending, src, out, dstate, fr>>

(***************************************************************************)
(* core.rs: the sum types.                                                 *)
(***************************************************************************)
BuildSucceeded == "BuildSucceeded"
BuildFailed == "BuildFailed"

BuildReady == [tag |-> "BuildReady", step |-> "", result |-> ""]
BuildRunning(name) == [tag |-> "BuildRunning", step |-> name, result |-> ""]
BuildFinished(res) == [tag |-> "BuildFinished", step |-> "", result |-> res]

StepSucceeded == [tag |-> "StepSucceeded", code |-> 0]
StepSkipped == [tag |-> "StepSkipped", code |-> 0]
StepFailed(code) == [tag |-> "StepFailed", code |-> code]

\* impl From<ContainerExitCode> for StepResult, preceded by a faulty variant
\* with the test inverted
StepResultFrom_Inverted(v) == IF v # 0 THEN StepSucceeded ELSE StepFailed(v)
StepResultFrom(v) == IF v = 0 THEN StepSucceeded ELSE StepFailed(v)

(***************************************************************************)
(* Pipelines.  Step names are unique within a pipeline (spec section 3);   *)
(* the names are those of main.rs, continued for longer pipelines.  A step *)
(* carries depends_on: None or Some(list of names); image and commands are *)
(* passed to the runtime unchanged and decide nothing.                     *)
(***************************************************************************)
StepNames == <<"build", "test", "deploy", "package", "publish">>

None == [some |-> FALSE, names |-> <<>>]
Some(names) == [some |-> TRUE, names |-> names]

\* main.rs gives "test" and "deploy" the dependency list ["test"], "build" None
DependsOnChoices == {None, Some(<<"test">>)}

\* pipelines of 1..MaxSteps steps; the steps of one pipeline share one
\* depends_on value
Pipelines ==
    UNION { { [i \in 1..n |-> [name |-> StepNames[i], depends_on |-> d]] :
              d \in DependsOnChoices } : n \in 1..MaxSteps }

(***************************************************************************)
(* The gateway's answers.                                                  *)
(***************************************************************************)
\* errors of process_request (docker.rs 296-337) and of the JSON-Lines
\* decoder (read.rs 114-130); the build engine handles them all alike
GatewayErrors == {"RequestTimeoutError", "DockerResponseServerError"}
DecoderErrors == {"JsonDataError"}

\* ContainerWaitResponse.error: None, Some{message: None}, Some{message: Some(m)}
NoError == [present |-> FALSE, has_message |-> FALSE, message |-> ""]
ErrorNoMessage == [present |-> TRUE, has_message |-> FALSE, message |-> ""]
ErrorMessage(m) == [present |-> TRUE, has_message |-> TRUE, message |-> m]

\* an item of a Stream<Item = Result<ContainerWaitResponse, Error>>
OkRecord(code, error) ==
    [ok |-> TRUE, variant |-> "ContainerWaitResponse", code |-> code,
     error |-> error, message |-> ""]
ErrWait(code, message) ==
    [ok |-> FALSE, variant |-> "DockerContainerWaitError", code |-> code,
     error |-> NoError, message |-> message]
ErrOther(e) ==
    [ok |-> FALSE, variant |-> e, code |-> 0, error |-> NoError, message |-> ""]

\* the records explored: exit code 0; exit code 2 without an error (becomes
\* the wait error); exit code 2 with an error that has no message (passes
\* through as a record)
WaitRecords ==
    {OkRecord(0, NoError), OkRecord(2, NoError), OkRecord(2, ErrorNoMessage)}

SeqUpTo(S, n) == UNION { [1..k -> S] : k \in 0..n }

\* what process_into_stream yields: the error of a failed request alone, or
\* the decoded records in order, ended by the end of the body or by one
\* decoder error (FramedRead ends the stream after an error)
RawStreams ==
    { <<ErrOther(e)>> : e \in GatewayErrors }
      \cup { recs \o tail : recs \in SeqUpTo(WaitRecords, MaxExtraItems + 1),
                            tail \in {<<>>} \cup { <<ErrOther(e)>> : e \in DecoderErrors } }

(***************************************************************************)
(* container.rs: Docker::wait_container maps every item of the stream.     *)
(***************************************************************************)
\* faulty variant: no record is turned into the wait error
wait_item_PassThrough(res) == res
wait_item(res) ==
    IF res.ok /\ res.error.present /\ res.error.has_message /\ res.code > 0
    THEN ErrWait(res.code, res.error.message)
    ELSE IF res.ok /\ ~res.error.present /\ res.code > 0
    THEN ErrWait(res.code, "")
    ELSE res

wait_container(raw) == [i \in 1..Len(raw) |-> wait_item(raw[i])]

(***************************************************************************)
(* build.rs: step selection.                                               *)
(***************************************************************************)
RECURSIVE find_completed_steps(_, _)
find_completed_steps(completed, step_name_to_match) ==
    IF completed = <<>> THEN FALSE
    ELSE IF Head(completed)[1] = step_name_to_match THEN TRUE
    ELSE find_completed_steps(Tail(completed), step_name_to_match)

RECURSIVE find_depends_on(_, _)
find_depends_on(completed, step_depends_on) ==
    IF step_depends_on = <<>> THEN FALSE
    ELSE IF find_completed_steps(completed, Head(step_depends_on)) THEN TRUE
    ELSE find_depends_on(completed, Tail(step_depends_on))

NoStep == [found |-> FALSE, step |-> [name |-> "", depends_on |-> None]]
FoundStep(step) == [found |-> TRUE, step |-> step]

\* Iterator::find over the steps, from position i on
RECURSIVE find_step(_, _, _)
find_step(steps, completed, i) ==
    IF i > Len(steps) THEN NoStep
    ELSE IF find_completed_steps(completed, steps[i].name) = FALSE
    THEN FoundStep(steps[i])
    ELSE find_step(steps, completed, i + 1)

\* faulty variant: the last step of the pipeline that is not in the ledger
RECURSIVE find_step_rev(_, _, _)
find_step_rev(steps, completed, i) ==
    IF i < 1 THEN NoStep
    ELSE IF find_completed_steps(completed, steps[i].name) = FALSE
    THEN FoundStep(steps[i])
    ELSE find_step_rev(steps, completed, i - 1)

next_step_Last(steps, completed) == find_step_rev(steps, completed, Len(steps))
next_step(steps, completed) == find_step(steps, completed, 1)

\* Result<Step, BuildResult>
OkStep(step) == [ok |-> TRUE, step |-> step, res |-> ""]
ErrResult(res) == [ok |-> FALSE, step |-> NoStep.step, res |-> res]

\* faulty variant: the commented-out gate on depends_on (build.rs 143-147)
has_next_step_Gated(steps, completed) ==
    LET n == next_step(steps, completed) IN
    IF n.found
    THEN IF n.step.depends_on.some
         THEN IF ~find_depends_on(completed, n.step.depends_on.names)
              THEN OkStep(n.step)
              ELSE ErrResult(BuildFailed)
         ELSE OkStep(n.step)
    ELSE ErrResult(BuildSucceeded)

\* faulty variant: the commented-out all_steps_succeeded test (build.rs 138, 155-157)
has_next_step_AllSucceeded(steps, completed) ==
    IF \A i \in 1..Len(completed) : completed[i][2] = StepSucceeded
    THEN LET n == next_step(steps, completed) IN
         IF n.found THEN OkStep(n.step) ELSE ErrResult(BuildSucceeded)
    ELSE ErrResult(BuildFailed)

has_next_step(steps, completed) ==
    LET n == next_step(steps, completed) IN
    IF n.found
    THEN IF n.step.depends_on.some THEN OkStep(n.step) ELSE OkStep(n.step)
    ELSE ErrResult(BuildSucceeded)

(***************************************************************************)
(* build.rs: Build::progress.  A call works on the record w: the fields of *)
(* the Build (state, completed_steps, fail_through) with the log of the    *)
(* gateway requests issued so far (requests) and the values the call has   *)
(* assigned to self.state (assigned).                                      *)
(***************************************************************************)
Request(op, step, result) == [op |-> op, step |-> step, result |-> result]

\* self.state = s
set_state(w, s) == [w EXCEPT !.state = s, !.assigned = Append(@, s)]

\* conn.create_container / start_container / wait_container: one request each
issue(w, op, step, result) ==
    [w EXCEPT !.requests = Append(@, Request(op, step, result))]

\* build.rs 113-116: create failed
\* faulty variant: the build stays Ready, so the next call creates again
create_failed_Ready(w) == set_state(w, BuildReady)
create_failed(w) == set_state(w, BuildFinished(BuildFailed))

\* build.rs 106-110: start failed
\* faulty variant: the step counts as running although start failed
start_failed_Running(w, step) == set_state(w, BuildRunning(step.name))
start_failed(w, step) == set_state(w, BuildFinished(BuildFailed))

\* build.rs 101-105: start succeeded
start_succeeded(w, step) == set_state(w, BuildRunning(step.name))

\* build.rs 118-122: the latch is set, the step is skipped
\* faulty variant: the step is created and started all the same
skip_step_Create(w, step) ==
    set_state(issue(issue(w, "create", step.name, "Ok"), "start", step.name, "Ok"),
              BuildRunning(step.name))
\* faulty variant: skipping a step clears the latch
skip_step_ResetLatch(w, step) ==
    set_state([w EXCEPT !.completed_steps = Append(@, <<step.name, StepSkipped>>),
                        !.fail_through = FALSE],
              BuildReady)
skip_step(w, step) ==
    set_state([w EXCEPT !.completed_steps = Append(@, <<step.name, StepSkipped>>)],
              BuildReady)

\* build.rs 74-117: the latch is clear, the step is created and started
\* faulty variant: a failed create is issued a second time
run_step_Retry(w, step, create, start) ==
    LET w1 == issue(w, "create", step.name, create) IN
    IF create = "Ok"
    THEN LET w2 == issue(w1, "start", step.name, start) IN
         IF start = "Ok" THEN start_succeeded(w2, step) ELSE start_failed(w2, step)
    ELSE LET w2 == issue(w1, "create", step.name, "Ok") IN
         start_succeeded(issue(w2, "start", step.name, "Ok"), step)
run_step(w, step, create, start) ==
    LET w1 == issue(w, "create", step.name, create) IN
    IF create = "Ok"
    THEN LET w2 == issue(w1, "start", step.name, start) IN
         IF start = "Ok" THEN start_succeeded(w2, step) ELSE start_failed(w2, step)
    ELSE create_failed(w1)

\* build.rs 69-125: the BuildReady arm
progress_ready(w, steps, create, start) ==
    LET r == has_next_step(steps, w.completed_steps) IN
    IF r.ok
    THEN IF ~w.fail_through
         THEN run_step(w, r.step, create, start)
         ELSE skip_step(w, r.step)
    ELSE set_state(w, BuildFinished(r.res))

\* faulty variant: the wait error ends the build like any other error
handle_item_WaitFatal(w, step, s) ==
    IF s.ok
    THEN [set_state(w, BuildReady) EXCEPT
            !.completed_steps = Append(@, <<step, StepResultFrom(s.code)>>)]
    ELSE set_state(w, BuildFinished(BuildFailed))
\* faulty variant: every other error also sets the latch
handle_item_ErrorLatches(w, step, s) ==
    IF s.ok
    THEN [set_state(w, BuildReady) EXCEPT
            !.completed_steps = Append(@, <<step, StepResultFrom(s.code)>>)]
    ELSE IF s.variant = "DockerContainerWaitError"
    THEN [set_state(w, BuildReady) EXCEPT
            !.fail_through = TRUE,
            !.completed_steps = Append(@, <<step, StepResultFrom(s.code)>>)]
    ELSE [set_state(w, BuildFinished(BuildFailed)) EXCEPT !.fail_through = TRUE]
\* faulty variant: a record also sets the latch
handle_item_RecordLatches(w, step, s) ==
    IF s.ok
    THEN [set_state(w, BuildReady) EXCEPT
            !.fail_through = TRUE,
            !.completed_steps = Append(@, <<step, StepResultFrom(s.code)>>)]
    ELSE IF s.variant = "DockerContainerWaitError"
    THEN [set_state(w, BuildReady) EXCEPT
            !.fail_through = TRUE,
            !.completed_steps = Append(@, <<step, StepResultFrom(s.code)>>)]
    ELSE set_state(w, BuildFinished(BuildFailed))
\* build.rs 163-185: the closure handle_running_state runs on one item
handle_item(w, step, s) ==
    IF s.ok
    THEN [set_state(w, BuildReady) EXCEPT
            !.completed_steps = Append(@, <<step, StepResultFrom(s.code)>>)]
    ELSE IF s.variant = "DockerContainerWaitError"
    THEN [set_state(w, BuildReady) EXCEPT
            !.fail_through = TRUE,
            !.completed_steps = Append(@, <<step, StepResultFrom(s.code)>>)]
    ELSE set_state(w, BuildFinished(BuildFailed))

\* build.rs 159-187: wait.for_each(closure) runs the closure on every item
RECURSIVE handle_running_state(_, _, _)
handle_running_state(w, wait, step) ==
    IF wait = <<>> THEN w
    ELSE handle_running_state(handle_item(w, step, Head(wait)), Tail(wait), step)

\* faulty variant: a wait stream that yields nothing ends the build
progress_running_EmptyFails(w, step, raw) ==
    IF raw = <<>>
    THEN set_state(issue(w, "wait", step, ""), BuildFinished(BuildFailed))
    ELSE handle_running_state(issue(w, "wait", step, ""), wait_container(raw), step)
\* build.rs 126-132: the BuildRunning arm
progress_running(w, step, raw) ==
    handle_running_state(issue(w, "wait", step, ""), wait_container(raw), step)

(***************************************************************************)
(* The layers at rest.                                                     *)
(***************************************************************************)
NoResult == [ok |-> FALSE, variant |-> "none", status_code |-> 0, message |-> ""]
Silent == [kind |-> "silent", at |-> 0, status |-> 0, body |-> ""]
NoRequest ==
    [phase |-> "none", built |-> TRUE, timeout |-> 0, elapsed |-> 0, sends |-> 0,
     server |-> Silent, result |-> NoResult]
RequestAtRest == req = NoRequest

\* read.rs 23-27: NewlineLogOutputDecoderState
WaitingHeader == [tag |-> "WaitingHeader", typ |-> 0, length |-> 0]
WaitingPayload(typ, length) == [tag |-> "WaitingPayload", typ |-> typ, length |-> length]

\* the flags of tokio_util's FramedRead around a decoder (docker.rs 248-263)
FramedNew == [is_readable |-> FALSE, eof |-> FALSE, ended |-> FALSE]

StreamAtRest ==
    /\ upstream = <<>>
    /\ pending = <<>>
    /\ src = <<>>
    /\ out = <<>>
    /\ dstate = WaitingHeader
    /\ fr = FramedNew

BuildAtRest ==
    /\ pipeline = <<>>
    /\ state = BuildReady
    /\ completed_steps = <<>>
    /\ fail_through = FALSE
    /\ panicked = FALSE
    /\ requests = <<>>
    /\ assigned = <<>>
    /\ entry = [tag |-> "NoCall", step |-> "", result |-> ""]
    /\ wait_stream = <<>>
    /\ empty_waits = 0
    /\ extra_items = 0
    /\ all_ok = TRUE

(***************************************************************************)
(* The state machine.                                                      *)
(***************************************************************************)
NoCall == [tag |-> "NoCall", step |-> "", result |-> ""]

\* the Build at the start of a call
Self ==
    [state |-> state, completed_steps |-> completed_steps,
     fail_through |-> fail_through, requests |-> requests, assigned |-> <<>>]

\* the requests a call that ended in w has added to the log
Issued(w) == SubSeq(w.requests, Len(requests) + 1, Len(w.requests))

\* a single record with exit code 0
SingleZero(raw) == Len(raw) = 1 /\ raw[1].ok /\ raw[1].code = 0

\* main.rs 40-41: Build::new(pl, BuildState::BuildReady, vec![]), fail_through false
Init ==
    /\ pipeline \in Pipelines
    /\ state = BuildReady
    /\ completed_steps = <<>>
    /\ fail_through = FALSE
    /\ panicked = FALSE
    /\ requests = <<>>
    /\ assigned = <<>>
    /\ entry = NoCall
    /\ wait_stream = <<>>
    /\ empty_waits = 0
    /\ extra_items = 0
    /\ all_ok = TRUE
    /\ RequestAtRest
    /\ StreamAtRest

Commit(w) ==
    /\ state' = w.state
    /\ completed_steps' = w.completed_steps
    /\ fail_through' = w.fail_through
    /\ requests' = w.requests
    /\ assigned' = w.assigned
    /\ entry' = state
    /\ UNCHANGED <<pipeline, request_vars, stream_vars>>

\* progress called in BuildReady
ProgressReady(create, start) ==
    /\ ~panicked
    /\ state.tag = "BuildReady"
    /\ LET w == progress_ready(Self, pipeline, create, start) IN
       /\ Commit(w)
       /\ all_ok' = (all_ok /\ \A i \in 1..Len(Issued(w)) : Issued(w)[i].result = "Ok")
    /\ wait_stream' = <<>>
    /\ UNCHANGED <<panicked, empty_waits, extra_items>>

\* progress called in BuildRunning, the response stream being raw
ProgressRunning(raw) ==
    /\ ~panicked
    /\ state.tag = "BuildRunning"
    /\ raw = <<>> => empty_waits < MaxEmptyWaits
    /\ Len(raw) > 1 => extra_items + Len(raw) - 1 <= MaxExtraItems
    /\ Commit(progress_running(Self, state.step, raw))
    /\ wait_stream' = wait_container(raw)
    /\ empty_waits' = IF raw = <<>> THEN empty_waits + 1 ELSE empty_waits
    /\ extra_items' = IF Len(raw) > 1 THEN extra_items + Len(raw) - 1 ELSE extra_items
    /\ all_ok' = (all_ok /\ SingleZero(raw))
    /\ UNCHANGED panicked

\* progress called in BuildFinished: todo!() panics (build.rs 133)
ProgressFinished ==
    /\ ~panicked
    /\ state.tag = "BuildFinished"
    /\ panicked' = TRUE
    /\ entry' = state
    /\ assigned' = <<>>
    /\ wait_stream' = <<>>
    /\ UNCHANGED <<pipeline, state, completed_steps, fail_through, requests,
                   empty_waits, extra_items, all_ok, request_vars, stream_vars>>

Next ==
    \/ \E create \in GatewayErrors \cup {"Ok"}, start \in GatewayErrors \cup {"Ok"} :
          ProgressReady(create, start)
    \/ \E raw \in RawStreams : ProgressRunning(raw)
    \/ ProgressFinished

Spec == Init /\ [][Next]_vars

(***************************************************************************)
(* Vocabulary of the properties.                                           *)
(***************************************************************************)
InLedger(name) == \E i \in 1..Len(completed_steps) : completed_steps[i][1] = name

\* positions of the pipeline steps that have no ledger entry
Missing == { i \in 1..Len(pipeline) : ~InLedger(pipeline[i].name) }
FirstMissing == CHOOSE i \in Missing : \A j \in Missing : i <= j

StepIndex(name) == CHOOSE i \in 1..Len(pipeline) : pipeline[i].name = name

\* the requests the step from the unprimed to the primed state has issued
NewRequests == SubSeq(requests', Len(requests) + 1, Len(requests'))

AllSucceededLedger ==
    [i \in 1..Len(pipeline) |-> <<pipeline[i].name, StepSucceeded>>]

IsPrefix(s, t) == Len(s) <= Len(t) /\ s = SubSeq(t, 1, Len(s))

Skipped == SelectSeq(completed_steps, LAMBDA e : e[2] = StepSkipped)

\* number of times consecutive elements of seq differ
Changes(seq) == Cardinality({ i \in 1..(Len(seq) - 1) : seq[i] # seq[i + 1] })

(***************************************************************************)
(* C1: if every create and start succeeds and every wait yields a single   *)
(* record with exit code 0, the ledger grows as the pipeline's steps in    *)
(* pipeline order, each Succeeded, the build never fails, and when it is   *)
(* Finished it is Finished(Succeeded) with the whole pipeline in the       *)
(* ledger.                                                                 *)
(***************************************************************************)
C1_AllSucceed ==
    all_ok =>
        /\ IsPrefix(completed_steps, AllSucceededLedger)
        /\ state # BuildFinished(BuildFailed)
        /\ state.tag = "BuildFinished" =>
              /\ state = BuildFinished(BuildSucceeded)
              /\ completed_steps = AllSucceededLedger

C1_Witness ==
    /\ all_ok
    /\ state = BuildFinished(BuildSucceeded)
    /\ Len(pipeline) = 3
    /\ Len(completed_steps) = 3

(***************************************************************************)
(* C2: with the latch set, a call of progress in Ready that finds a next   *)
(* step appends (step.name, Skipped), stays Ready and issues no request;   *)
(* so the Skipped entries are the steps after the one that was waited for  *)
(* last, in pipeline order, at the end of the ledger, none of them has a   *)
(* request, and all of them are there when the build has succeeded.        *)
(***************************************************************************)
C2_SkipCall ==
    (fail_through /\ state = BuildReady /\ Missing # {}) =>
        /\ completed_steps' =
              Append(completed_steps, <<pipeline[FirstMissing].name, StepSkipped>>)
        /\ state' = BuildReady
        /\ assigned' = <<BuildReady>>
        /\ requests' = requests
        /\ fail_through'

C2_Remaining ==
    fail_through =>
        /\ requests # <<>>
        /\ requests[Len(requests)].op = "wait"
        /\ LET k == StepIndex(requests[Len(requests)].step) IN
           /\ \A i \in 1..Len(requests) : StepIndex(requests[i].step) <= k
           /\ Skipped = [i \in 1..Len(Skipped) |-> <<pipeline[k + i].name, StepSkipped>>]
           /\ Skipped = SubSeq(completed_steps,
                               Len(completed_steps) - Len(Skipped) + 1,
                               Len(completed_steps))
           /\ state = BuildFinished(BuildSucceeded) => Len(Skipped) = Len(pipeline) - k

C2_SkipAfterLatch == [][C2_SkipCall]_vars /\ []C2_Remaining

C2_Witness ==
    /\ fail_through
    /\ state = BuildFinished(BuildSucceeded)
    /\ Len(Skipped) = 2

(***************************************************************************)
(* C3: when a call in Ready with the latch clear has its create request    *)
(* fail, or its start request fail, the state is Finished(Failed) at the   *)
(* end of that call, by one assignment, the ledger and the latch are       *)
(* unchanged, no start follows a failed create, and from then on no        *)
(* request is issued.                                                      *)
(***************************************************************************)
C3_FatalCall ==
    (state = BuildReady /\ ~fail_through
       /\ \E i \in 1..Len(NewRequests) : NewRequests[i].result # "Ok") =>
        /\ state' = BuildFinished(BuildFailed)
        /\ assigned' = <<BuildFinished(BuildFailed)>>
        /\ UNCHANGED <<completed_steps, fail_through>>
        /\ NewRequests[1].op = "create"
        /\ NewRequests[1].result # "Ok" => Len(NewRequests) = 1
        /\ Len(NewRequests) = 2 => NewRequests[2].op = "start"

C3_NoLaterRequest == state.tag = "BuildFinished" => requests' = requests

C3_CreateStartFailure == [][C3_FatalCall /\ C3_NoLaterRequest]_vars

C3_Witness ==
    /\ state = BuildFinished(BuildFailed)
    /\ entry = BuildReady
    /\ completed_steps # <<>>
    /\ requests[Len(requests)].op = "create"
    /\ requests[Len(requests)].result # "Ok"

(***************************************************************************)
(* C4: during one call of progress the BuildState takes at most one new    *)
(* value and the ledger gains at most one entry.                           *)
(***************************************************************************)
C4_OneTransition ==
    [][ /\ Len(completed_steps') <= Len(completed_steps) + 1
        /\ Changes(<<state>> \o assigned') <= 1 ]_vars

(***************************************************************************)
(* C5: once the BuildState is Finished, a call of progress is a no-op: it  *)
(* returns, leaves state, ledger and latch unchanged and issues no         *)
(* request.                                                                *)
(***************************************************************************)
C5_FinishedNoOp ==
    [][ state.tag = "BuildFinished" =>
          UNCHANGED <<state, completed_steps, fail_through, requests, panicked>> ]_vars

(***************************************************************************)
(* C6: a create request for a step is issued only when every earlier step  *)
(* of the pipeline has a ledger entry, and at most one step has a create   *)
(* request and no ledger entry.                                            *)
(***************************************************************************)
C6_CreateInOrder ==
    \A i \in 1..Len(NewRequests) :
        NewRequests[i].op = "create" =>
            \A j \in 1..(StepIndex(NewRequests[i].step) - 1) : InLedger(pipeline[j].name)

C6_OneInFlight ==
    Cardinality({ i \in 1..Len(pipeline) :
                    /\ \E r \in 1..Len(requests) :
                          requests[r].op = "create" /\ requests[r].step = pipeline[i].name
                    /\ ~InLedger(pipeline[i].name) }) <= 1

C6_Sequential == [][C6_CreateInOrder]_vars /\ []C6_OneInFlight

C6_Witness ==
    /\ state = BuildRunning(pipeline[Len(pipeline)].name)
    /\ Len(pipeline) = 3
    /\ Cardinality({ r \in 1..Len(requests) : requests[r].op = "create" }) = 3

(***************************************************************************)
(* C7: each StepName appears at most once in the ledger.                   *)
(***************************************************************************)
C7_NamesUnique ==
    \A i, j \in 1..Len(completed_steps) :
        i # j => completed_steps[i][1] # completed_steps[j][1]

(***************************************************************************)
(* C8: the latch is false when the Build is created and no call of         *)
(* progress sets it back to false.                                         *)
(***************************************************************************)
C8_LatchMonotonic == ~fail_through /\ [][fail_through => fail_through']_vars

\* calls in Ready have been made with the latch set
C8_Witness ==
    /\ fail_through
    /\ state = BuildFinished(BuildSucceeded)
    /\ entry = BuildReady
    /\ Len(Skipped) >= 1

(***************************************************************************)
(* C9: a call in Ready acts on the first step in pipeline order whose name *)
(* is not in the ledger (it creates it when the latch is clear, it skips   *)
(* it when the latch is set), and the call's outcome is the same when the  *)
(* depends_on of every step is erased.                                     *)
(***************************************************************************)
WithoutDependsOn(steps) ==
    [i \in 1..Len(steps) |-> [steps[i] EXCEPT !.depends_on = None]]

C9_ChosenFirst ==
    (state = BuildReady /\ Missing # {}) =>
        IF fail_through
        THEN completed_steps'[Len(completed_steps')] =
                <<pipeline[FirstMissing].name, StepSkipped>>
        ELSE /\ NewRequests # <<>>
             /\ \A i \in 1..Len(NewRequests) :
                   NewRequests[i].step = pipeline[FirstMissing].name

C9_DependsOnInert ==
    state = BuildReady =>
        \A create \in GatewayErrors \cup {"Ok"}, start \in GatewayErrors \cup {"Ok"} :
            progress_ready(Self, pipeline, create, start)
                = progress_ready(Self, WithoutDependsOn(pipeline), create, start)

C9_DeclarationOrder == [][C9_ChosenFirst]_vars /\ []C9_DependsOnInert

\* "deploy", which depends on "test", is created after "test" has failed
C9_Witness ==
    /\ Len(pipeline) = 3
    /\ pipeline[3].depends_on = Some(<<"test">>)
    /\ \E i \in 1..Len(completed_steps) :
          completed_steps[i] = <<"test", StepFailed(2)>>
    /\ state = BuildRunning("deploy")

(***************************************************************************)
(* C10: a call in Ready with every pipeline step name in the ledger ends   *)
(* in Finished(Succeeded), whatever the ledger's results; a call ends in   *)
(* Finished(Failed) only when its create or start request failed or its    *)
(* wait stream carried an error other than the wait error.                 *)
(***************************************************************************)
C10_Exhausted ==
    (state = BuildReady /\ Missing = {}) =>
        /\ state' = BuildFinished(BuildSucceeded)
        /\ UNCHANGED <<completed_steps, fail_through, requests>>

C10_FailedOnlyByGateway ==
    (state.tag # "BuildFinished" /\ state' = BuildFinished(BuildFailed)) =>
        \/ \E i \in 1..Len(NewRequests) :
              NewRequests[i].op \in {"create", "start"} /\ NewRequests[i].result # "Ok"
        \/ \E i \in 1..Len(wait_stream') :
              ~wait_stream'[i].ok /\ wait_stream'[i].variant # "DockerContainerWaitError"

C10_ExhaustedSucceeds == [][C10_Exhausted /\ C10_FailedOnlyByGateway]_vars

C10_Witness ==
    /\ state = BuildFinished(BuildSucceeded)
    /\ entry = BuildReady
    /\ \E i \in 1..Len(completed_steps) : completed_steps[i][2] = StepFailed(2)
    /\ \E i \in 1..Len(completed_steps) : completed_steps[i][2] = StepSkipped

(***************************************************************************)
(* C11: a call in Running(name) whose wait stream ends with the wait error *)
(* of code c sets the latch, leaves (name, Failed(c)) as the last ledger   *)
(* entry and ends in Ready, never in Finished; when that error is the only *)
(* item the ledger has gained exactly that entry.                          *)
(***************************************************************************)
LastItem == wait_stream'[Len(wait_stream')]

C11_WaitErrorCall ==
    (state.tag = "BuildRunning" /\ wait_stream' # <<>>
        /\ LastItem.variant = "DockerContainerWaitError") =>
        /\ fail_through'
        /\ state' = BuildReady
        /\ completed_steps' # <<>>
        /\ completed_steps'[Len(completed_steps')] =
              <<state.step, StepFailed(LastItem.code)>>
        /\ Len(wait_stream') = 1 =>
              /\ completed_steps' =
                    Append(completed_steps, <<state.step, StepFailed(LastItem.code)>>)
              /\ assigned' = <<BuildReady>>

C11_NonzeroExitContinues == [][C11_WaitErrorCall]_vars

C11_Witness ==
    /\ entry = BuildRunning("build")
    /\ wait_stream = <<ErrWait(2, "")>>
    /\ state = BuildReady
    /\ fail_through
    /\ completed_steps = <<<<"build", StepFailed(2)>>>>

(***************************************************************************)
(* C12: a call in Running(name) whose wait stream ends with an error other *)
(* than the wait error ends in Finished(Failed); that error adds nothing   *)
(* to the ledger and leaves the latch as the items before it left it; once *)
(* the build is Finished no request is issued and no ledger entry added.   *)
(***************************************************************************)
C12_FatalWaitCall ==
    (state.tag = "BuildRunning" /\ wait_stream' # <<>>
        /\ ~LastItem.ok /\ LastItem.variant # "DockerContainerWaitError") =>
        /\ state' = BuildFinished(BuildFailed)
        /\ fail_through' =
              \E i \in 1..Len(wait_stream') :
                  wait_stream'[i].variant = "DockerContainerWaitError"
        /\ Len(completed_steps') = Len(completed_steps) + Len(wait_stream') - 1
        /\ Len(wait_stream') = 1 =>
              /\ UNCHANGED <<completed_steps, fail_through>>
              /\ assigned' = <<BuildFinished(BuildFailed)>>

C12_NothingAfterFatal ==
    state = BuildFinished(BuildFailed) =>
        UNCHANGED <<state, completed_steps, fail_through, requests>>

C12_OtherErrorFatal == [][C12_FatalWaitCall /\ C12_NothingAfterFatal]_vars

C12_Witness ==
    /\ entry = BuildRunning("test")
    /\ wait_stream = <<ErrOther("RequestTimeoutError")>>
    /\ state = BuildFinished(BuildFailed)
    /\ ~fail_through
    /\ completed_steps = <<<<"build", StepSucceeded>>>>

(***************************************************************************)
(* C13: every call of progress on a Build that is not Finished, with every *)
(* request of the call completed, brings the Build strictly closer to      *)
(* Finished: the measure below decreases, so no run of calls can stay in   *)
(* Ready or Running forever.                                               *)
(***************************************************************************)
Measure(st, ledger) ==
    2 * Cardinality({ k \in 1..Len(pipeline) :
                        \A i \in 1..Len(ledger) : ledger[i][1] # pipeline[k].name })
      + (CASE st.tag = "BuildReady" -> 2
           [] st.tag = "BuildRunning" -> 1
           [] OTHER -> 0)

C13_CallProgresses ==
    state.tag # "BuildFinished" =>
        Measure(state', completed_steps') < Measure(state, completed_steps)

C13_Terminates == [][C13_CallProgresses]_vars

(***************************************************************************)
(* docker.rs: one request through Docker::process_request.                 *)
(*                                                                         *)
(* req.server is what the runtime does with the request: it stays silent,  *)
(* the transport fails at second at, or a response with a status and a     *)
(* body arrives at second at.  req.elapsed counts the seconds since the    *)
(* request was sent, req.sends the times it was handed to the transport.   *)
(***************************************************************************)
\* docker.rs 51
DEFAULT_TIMEOUT == 120

\* values of client_timeout explored (docker.rs 163-166, with_timeout)
Timeouts == {1, 2, DEFAULT_TIMEOUT}

Statuses == {101, 200, 204, 301, 304, 404, 500}

\* response bodies: empty; the runtime's error object; a JSON object of
\* another shape; text that starts like a JSON number; text that is not
\* JSON; an error object cut short
Bodies ==
    { "",
      "{\"message\":\"No such container: build\"}",
      "{\"error\":\"conflict\"}",
      "404 page not found",
      "Not Found",
      "{\"message\":\"No such cont" }

TransportError(at) == [kind |-> "transport_error", at |-> at, status |-> 0, body |-> ""]
Response(at, status, body) == [kind |-> "response", at |-> at, status |-> status, body |-> body]

Servers ==
    {Silent}
      \cup { TransportError(at) : at \in 0..MaxDelay }
      \cup { Response(at, status, body) :
                at \in 0..MaxDelay, status \in Statuses, body \in Bodies }

\* Result<Response<Incoming>, Error>; HttpError, HyperError and JsonError
\* stand for what the ? operator makes of the error of http, of the hyper
\* client and of serde_json
OkResponse(status, body) ==
    [ok |-> TRUE, variant |-> "Response", status_code |-> status, message |-> body]
Err(variant) == [ok |-> FALSE, variant |-> variant, status_code |-> 0, message |-> ""]
DockerResponseServerError(status_code, message) ==
    [ok |-> FALSE, variant |-> "DockerResponseServerError",
     status_code |-> status_code, message |-> message]

\* serde_json::from_str::<DockerServerErrorMessage>(contents), docker.rs
\* 103-106 and 306: the message of an object with a string field message;
\* an error of category Data for JSON of another type or shape (a leading
\* number is read as a number of the wrong type); of category Syntax for
\* text that is not JSON; of category Eof for JSON cut short
from_str(contents) ==
    CASE contents = "{\"message\":\"No such container: build\"}" ->
            [ok |-> TRUE, message |-> "No such container: build", category |-> ""]
      [] contents = "{\"error\":\"conflict\"}" ->
            [ok |-> FALSE, message |-> "", category |-> "Data"]
      [] contents = "404 page not found" ->
            [ok |-> FALSE, message |-> "", category |-> "Data"]
      [] contents = "Not Found" ->
            [ok |-> FALSE, message |-> "", category |-> "Syntax"]
      [] OTHER ->
            [ok |-> FALSE, message |-> "", category |-> "Eof"]

\* StatusCode::is_success
is_success(s) == 200 <= s /\ s <= 299

\* docker.rs 303-320: the arm of every other status
server_error(status, contents) ==
    IF contents # ""
    THEN LET msg == from_str(contents) IN
         IF msg.ok THEN DockerResponseServerError(status, msg.message)
         ELSE IF msg.category = "Data" THEN DockerResponseServerError(status, contents)
         ELSE Err("JsonError")
    ELSE DockerResponseServerError(status, "")

\* docker.rs 298-322: the match on the status of the response
match_status(status, body) ==
    IF is_success(status) \/ status = 304 THEN OkResponse(status, body)
    ELSE IF status = 101 THEN OkResponse(status, body)
    ELSE server_error(status, body)

\* faulty variant: the request is handed to the transport a second time
timed_out_Resend(r) ==
    IF r.sends = 1 THEN [r EXCEPT !.sends = 2, !.elapsed = 0]
    ELSE [r EXCEPT !.phase = "done", !.result = Err("RequestTimeoutError")]
\* docker.rs 335: Err(_) => Err(Error::RequestTimeoutError)
timed_out(r) == [r EXCEPT !.phase = "done", !.result = Err("RequestTimeoutError")]

\* docker.rs 334: Ok(v) => Ok(v?), then 297-322
answered(r) ==
    [r EXCEPT !.phase = "done",
              !.result = IF r.server.kind = "transport_error" THEN Err("HyperError")
                         ELSE match_status(r.server.status, r.server.body)]

InitRequest ==
    /\ req \in { [phase |-> "new", built |-> b, timeout |-> t, elapsed |-> 0,
                  sends |-> 0, server |-> sv, result |-> NoResult] :
                    b \in BOOLEAN, t \in Timeouts, sv \in Servers }
    /\ BuildAtRest
    /\ StreamAtRest

\* docker.rs 295-296: request? and the call of execute_request
Send ==
    /\ req.phase = "new"
    /\ req' = IF req.built THEN [req EXCEPT !.phase = "sent", !.sends = 1]
              ELSE [req EXCEPT !.phase = "done", !.result = Err("HttpError")]
    /\ UNCHANGED <<build_vars, stream_vars>>

\* a second passes with the request in flight and nothing arriving
Tick ==
    /\ req.phase = "sent"
    /\ req.elapsed < req.timeout
    /\ ~(req.server.kind # "silent" /\ req.server.at = req.elapsed)
    /\ req' = [req EXCEPT !.elapsed = @ + 1]
    /\ UNCHANGED <<build_vars, stream_vars>>

\* the transport completes before the timeout: docker.rs 334
Answer ==
    /\ req.phase = "sent"
    /\ req.elapsed < req.timeout
    /\ req.server.kind # "silent" /\ req.server.at = req.elapsed
    /\ req' = answered(req)
    /\ UNCHANGED <<build_vars, stream_vars>>

\* tokio::time::timeout elapses first: docker.rs 335; the request future is
\* dropped with it
Timeout ==
    /\ req.phase = "sent"
    /\ req.elapsed = req.timeout
    /\ req' = timed_out(req)
    /\ UNCHANGED <<build_vars, stream_vars>>

NextRequest == Send \/ Tick \/ Answer \/ Timeout

\* the clock of the runtime keeps running
SpecRequest == InitRequest /\ [][NextRequest]_vars /\ WF_vars(NextRequest)

(***************************************************************************)
(* C14: a request not answered within req.timeout seconds completes with   *)
(* RequestTimeoutError: every request sent completes, a request whose      *)
(* timeout has elapsed completes with that error in the next step, and the *)
(* request is handed to the transport at most once.                        *)
(***************************************************************************)
C14_Unanswered ==
    req.server.kind = "silent" \/ req.server.at >= req.timeout

C14_TimeoutStep ==
    (req.phase = "sent" /\ req.elapsed = req.timeout) =>
        /\ req'.phase = "done"
        /\ req'.result = Err("RequestTimeoutError")
        /\ req'.sends = req.sends

C14_TimesOut ==
    /\ [][C14_TimeoutStep]_vars
    /\ [](req.sends <= 1 /\ req.elapsed <= req.timeout)
    /\ []((req.phase = "done" /\ req.built /\ C14_Unanswered) =>
            (req.result = Err("RequestTimeoutError") /\ req.elapsed = req.timeout))
    /\ (req.phase = "sent") ~> (req.phase = "done")

C14_Witness ==
    /\ req.phase = "done"
    /\ req.server.kind = "response" /\ req.server.at > req.timeout
    /\ req.result = Err("RequestTimeoutError")
    /\ req.sends = 1

(***************************************************************************)
(* C15: every response that arrives in time is classified: status 2xx, 304 *)
(* or 101 gives the response; every other status gives                     *)
(* DockerResponseServerError with that status and, as message, the message *)
(* field of a body that parses as the error object and the raw body text   *)
(* of every other body.                                                    *)
(***************************************************************************)
C15_Claimed(status, body) ==
    IF is_success(status) \/ status = 304 \/ status = 101
    THEN OkResponse(status, body)
    ELSE DockerResponseServerError(status,
            IF from_str(body).ok THEN from_str(body).message ELSE body)

C15_Classified ==
    (req.phase = "done" /\ req.server.kind = "response"
        /\ req.result # Err("RequestTimeoutError") /\ req.built) =>
        req.result = C15_Claimed(req.server.status, req.server.body)

(***************************************************************************)
(* container.rs: the map of Docker::wait_container, item by item.          *)
(*                                                                         *)
(* upstream holds the items process_into_stream has still to yield, out    *)
(* the items wait_container has yielded.                                   *)
(***************************************************************************)
\* StatusCode is an i64 (core.rs 91, container.rs 108-121)
ExitCodes == {-1, 0, 2}

UpstreamRecords ==
    { OkRecord(code, error) :
        code \in ExitCodes, error \in {NoError, ErrorNoMessage, ErrorMessage("OOMKilled")} }

UpstreamStreams ==
    { <<ErrOther(e)>> : e \in GatewayErrors }
      \cup { recs \o tail : recs \in SeqUpTo(UpstreamRecords, MaxUpstream),
                            tail \in {<<>>} \cup { <<ErrOther(e)>> : e \in DecoderErrors } }

InitWait ==
    /\ upstream \in UpstreamStreams
    /\ pending = <<>> /\ src = <<>> /\ out = <<>>
    /\ dstate = WaitingHeader /\ fr = FramedNew
    /\ BuildAtRest
    /\ RequestAtRest

\* container.rs 107-131: the closure of map runs on the next item
PollWait ==
    /\ upstream # <<>>
    /\ out' = Append(out, wait_item(Head(upstream)))
    /\ upstream' = Tail(upstream)
    /\ UNCHANGED <<build_vars, request_vars, pending, src, dstate, fr>>

NextWait == PollWait

SpecWait == InitWait /\ [][NextWait]_vars

(***************************************************************************)
(* C16: wait_container turns a record with a nonzero status code and an    *)
(* error message into the wait error with that code and message, a record  *)
(* with a nonzero status code and no error into the wait error with an     *)
(* empty message, and passes on unchanged every other record, which has    *)
(* status code 0, and every upstream error.                                *)
(***************************************************************************)
C16_Claimed(res) ==
    IF res.ok /\ res.code # 0 /\ res.error.present /\ res.error.has_message
    THEN ErrWait(res.code, res.error.message)
    ELSE IF res.ok /\ res.code # 0 /\ ~res.error.present
    THEN ErrWait(res.code, "")
    ELSE res

C16_MapStep ==
    upstream # <<>> =>
        /\ out'[Len(out')] = C16_Claimed(Head(upstream))
        /\ out'[Len(out')].ok => out'[Len(out')].code = 0

C16_WaitMapping == [][C16_MapStep]_vars

(***************************************************************************)
(* docker.rs 248-253, read.rs: a response body read by FramedRead.         *)
(*                                                                         *)
(* upstream is what the runtime wrote (a sequence of texts, constant over  *)
(* a run), pending the bytes of the body not yet read, src the buffer of   *)
(* FramedRead, out the items the stream has yielded, fr the flags of       *)
(* FramedRead.  A read takes any non-empty prefix of pending, so every way *)
(* of cutting the body into reads is explored.  FramedRead calls decode    *)
(* while it returns an item, reads again when it returns none, calls       *)
(* decode_eof at the end of the body and ends the stream after an error.   *)
(***************************************************************************)
\* read.rs 139: b'\n'
NL == 10

RECURSIVE Flatten(_)
Flatten(texts) == IF texts = <<>> THEN <<>> ELSE Head(texts) \o Flatten(Tail(texts))

\* index of the first newline of s, 0 when it has none (read.rs 139)
RECURSIVE position(_, _)
position(s, i) ==
    IF i > Len(s) THEN 0 ELSE IF s[i] = NL THEN i ELSE position(s, i + 1)

\* an item of the stream: a decoded value, or an error with the column and
\* the text of the input it holds, if it holds them
Item(value) ==
    [ok |-> TRUE, kind |-> "", value |-> value, error |-> "", column |-> 0,
     contents |-> None]
ErrItem(error) ==
    [ok |-> FALSE, kind |-> "", value |-> <<>>, error |-> error, column |-> 0,
     contents |-> None]

Some_(item, buf) == [tag |-> "Some", item |-> item, src |-> buf]
None_(buf) == [tag |-> "None", item |-> ErrItem(""), src |-> buf]
Err_(error, buf) == [tag |-> "Err", item |-> ErrItem(error), src |-> buf]

\* tokio_util Decoder::decode_eof (default): bytes left over are an error
decode_eof(r) ==
    IF r.tag = "None" /\ r.src # <<>> THEN Err_("bytes remaining on stream", r.src)
    ELSE r

\* FramedRead::poll_next, readable and not at the end of the body
Framing(r) ==
    /\ src' = r.src
    /\ out' = IF r.tag = "None" THEN out ELSE Append(out, r.item)
    /\ fr' = CASE r.tag = "Some" -> fr
               [] r.tag = "None" -> [fr EXCEPT !.is_readable = FALSE]
               [] OTHER -> [fr EXCEPT !.is_readable = FALSE, !.ended = TRUE]

\* FramedRead::poll_next, readable and at the end of the body
Pausing(r) ==
    /\ src' = r.src
    /\ out' = IF r.tag = "None" THEN out ELSE Append(out, r.item)
    /\ fr' = IF r.tag = "Some" THEN fr
             ELSE [fr EXCEPT !.is_readable = FALSE, !.ended = TRUE]

\* FramedRead::poll_next, reading: the next bytes of the body arrive
ReadChunk(n) ==
    /\ ~fr.is_readable /\ ~fr.ended
    /\ n \in 1..Len(pending)
    /\ src' = src \o SubSeq(pending, 1, n)
    /\ pending' = SubSeq(pending, n + 1, Len(pending))
    /\ fr' = [fr EXCEPT !.is_readable = TRUE, !.eof = FALSE]
    /\ UNCHANGED <<build_vars, request_vars, upstream, out, dstate>>

\* FramedRead::poll_next, reading: the body has ended (a read of 0 bytes)
ReadEof ==
    /\ ~fr.is_readable /\ ~fr.ended
    /\ pending = <<>>
    /\ fr' = [fr EXCEPT !.is_readable = TRUE, !.eof = TRUE]
    /\ UNCHANGED <<build_vars, request_vars, upstream, pending, src, out, dstate>>

(***************************************************************************)
(* read.rs 114-175: JsonLineDecoder.  The bytes are those of JSON texts    *)
(* made of the digit 1 (49), the brackets (91, 93) and the newline: a      *)
(* value is a number or an array of at most one value.  The item type T of *)
(* the decoder is any value ("Value") or an array ("Seq"), for which a     *)
(* number is well-formed JSON of the wrong type.                           *)
(***************************************************************************)
\* read.rs 101-111: JsonLineDecoder<T> holds nothing but its item type
ItemTypes == {"Value", "Seq"}
JsonLineDecoder(ty) == [tag |-> "JsonLineDecoder", ty |-> ty]

RECURSIVE skip_whitespace(_, _)
skip_whitespace(s, i) ==
    IF i <= Len(s) /\ s[i] = NL THEN skip_whitespace(s, i + 1) ELSE i

RECURSIVE skip_digits(_, _)
skip_digits(s, i) ==
    IF i <= Len(s) /\ s[i] = 49 THEN skip_digits(s, i + 1) ELSE i

\* serde_json reading one value of s from position i: Ok with the position
\* after the value, Eof when s ends inside the value, Syntax otherwise
RECURSIVE parse_value(_, _)
parse_value(s, i) ==
    LET j == skip_whitespace(s, i) IN
    IF j > Len(s) THEN [category |-> "Eof", next |-> j]
    ELSE IF s[j] = 49 THEN [category |-> "Ok", next |-> skip_digits(s, j)]
    ELSE IF s[j] = 91
    THEN LET k == skip_whitespace(s, j + 1) IN
         IF k > Len(s) THEN [category |-> "Eof", next |-> k]
         ELSE IF s[k] = 93 THEN [category |-> "Ok", next |-> k + 1]
         ELSE LET e == parse_value(s, k) IN
              IF e.category # "Ok" THEN e
              ELSE LET m == skip_whitespace(s, e.next) IN
                   IF m > Len(s) THEN [category |-> "Eof", next |-> m]
                   ELSE IF s[m] = 93 THEN [category |-> "Ok", next |-> m + 1]
                   ELSE [category |-> "Syntax", next |-> m]
    ELSE [category |-> "Syntax", next |-> j]

\* the value a text denotes: its bytes without the whitespace
value_of(s) == SelectSeq(s, LAMBDA b : b # NL)

\* serde_json::from_slice (read.rs 120) for the item type ty: one value of
\* that type, then nothing but whitespace.  A number where an array is
\* expected is read whole and is an error of category Data; column is the
\* column serde_json reports for the error
from_slice(ty, s) ==
    LET j == skip_whitespace(s, 1)
        r == parse_value(s, 1)
    IN  IF ty = "Seq" /\ j <= Len(s) /\ s[j] = 49
        THEN [category |-> "Data", value |-> <<>>, column |-> skip_digits(s, j) - 1]
        ELSE IF r.category # "Ok"
        THEN [category |-> r.category, value |-> <<>>, column |-> r.next]
        ELSE IF skip_whitespace(s, r.next) <= Len(s)
        THEN [category |-> "Syntax", value |-> <<>>,
              column |-> skip_whitespace(s, r.next)]
        ELSE [category |-> "Ok", value |-> value_of(s), column |-> 0]

\* read.rs 114-130: a Data error becomes JsonDataError{message, column,
\* contents}; every other error that is not Eof is converted by e.into(),
\* which is given the serde_json error alone (its position, not the slice)
decode_json_from_slice(ty, slice) ==
    LET r == from_slice(ty, slice) IN
    CASE r.category = "Ok" -> Some_(Item(r.value), slice)
      [] r.category = "Data" ->
            [tag |-> "Err", src |-> slice,
             item |-> [ErrItem("JsonDataError") EXCEPT
                          !.column = r.column, !.contents = Some(slice)]]
      [] r.category = "Eof" -> None_(slice)
      [] OTHER ->
            [tag |-> "Err", src |-> slice,
             item |-> [ErrItem("JsonError") EXCEPT !.column = r.column]]

\* read.rs 138-175: JsonLineDecoder::decode; the result and the buffer it leaves
json_decode(ty, buf) ==
    LET pos == position(buf, 1) IN
    IF buf # <<>>
    THEN IF pos # 0
         THEN LET remainder == SubSeq(buf, pos + 1, Len(buf))
                  line == SubSeq(buf, 1, pos)
                  slice == SubSeq(line, 1, Len(line) - 1)
                  r == decode_json_from_slice(ty, slice)
              IN CASE r.tag = "None" -> None_(SubSeq(line, 1, Len(line) - 1) \o remainder)
                   [] r.tag = "Some" -> Some_(r.item, remainder)
                   [] OTHER -> [r EXCEPT !.src = line]
         ELSE LET r == decode_json_from_slice(ty, buf)
              IN CASE r.tag = "None" -> None_(buf)
                   [] r.tag = "Some" -> Some_(r.item, <<>>)
                   [] OTHER -> [r EXCEPT !.src = buf]
    ELSE None_(buf)

\* the texts of the values the runtime writes, compact and spread over lines
JsonTexts ==
    { <<49>>, <<49, 49>>, <<91, 49, 93>>, <<91, NL, 49, 93>>, <<91, NL, 49, NL, 93>> }

\* lines that are not a value: a stray bracket, a number followed by one
MalformedTexts == { <<93>>, <<49, 93>> }

JsonBodies == UNION { [1..n -> JsonTexts \cup MalformedTexts] : n \in 1..MaxValues }

\* the body: every value followed by a newline
json_lines(texts) == Flatten([i \in 1..Len(texts) |-> Append(texts[i], NL)])

InitJson ==
    /\ upstream \in JsonBodies
    /\ pending = json_lines(upstream)
    /\ src = <<>>
    /\ out = <<>>
    /\ dstate \in { JsonLineDecoder(ty) : ty \in ItemTypes }
    /\ fr = FramedNew
    /\ BuildAtRest
    /\ RequestAtRest

JsonDecode ==
    /\ fr.is_readable /\ ~fr.eof /\ ~fr.ended
    /\ Framing(json_decode(dstate.ty, src))
    /\ UNCHANGED <<build_vars, request_vars, upstream, pending, dstate>>

JsonDecodeEof ==
    /\ fr.is_readable /\ fr.eof /\ ~fr.ended
    /\ Pausing(decode_eof(json_decode(dstate.ty, src)))
    /\ UNCHANGED <<build_vars, request_vars, upstream, pending, dstate>>

NextJson ==
    \/ \E n \in 1..Len(pending) : ReadChunk(n)
    \/ ReadEof
    \/ JsonDecode
    \/ JsonDecodeEof

SpecJson == InitJson /\ [][NextJson]_vars

(***************************************************************************)
(* C17: for every body of newline-terminated JSON values and every way of  *)
(* cutting it into reads, the items yielded so far are always the first    *)
(* values of the body in order, and when the stream has ended they are     *)
(* exactly the values of the body.                                         *)
(***************************************************************************)
JsonExpected == [i \in 1..Len(upstream) |-> Item(value_of(upstream[i]))]

\* every line of the body is a value of the item type
JsonWellTyped ==
    \A i \in 1..Len(upstream) : from_slice(dstate.ty, value_of(upstream[i])).category = "Ok"

C17_ExactlyOnceInOrder ==
    JsonWellTyped =>
        /\ IsPrefix(out, JsonExpected)
        /\ fr.ended => out = JsonExpected

(***************************************************************************)
(* C18: a body of one JSON value that holds a newline inside it yields     *)
(* nothing when decode stops at the interior newline, and by the end of    *)
(* the stream has yielded that one whole value and nothing else.           *)
(***************************************************************************)
C18_OneValueWithNewline ==
    Len(upstream) = 1 /\ position(upstream[1], 1) # 0 /\ JsonWellTyped

C18_InteriorNewline ==
    (C18_OneValueWithNewline /\ fr.is_readable /\ ~fr.eof /\ ~fr.ended
        /\ position(src, 1) # 0
        /\ from_slice(dstate.ty, SubSeq(src, 1, position(src, 1) - 1)).category = "Eof"
        /\ SubSeq(src, 1, position(src, 1) - 1) # <<>>) => out' = out

C18_WholeValue ==
    (C18_OneValueWithNewline /\ fr.ended) => out = JsonExpected

C18_NewlineInsideValue == [][C18_InteriorNewline]_vars /\ []C18_WholeValue

(***************************************************************************)
(* read.rs 23-97: NewlineLogOutputDecoder behind FramedRead, as            *)
(* decode_into_stream_string builds it (docker.rs 255-263).                *)
(***************************************************************************)
\* docker.rs 260: NewlineLogOutputDecoder::new(false)
is_tcp == FALSE

\* utils.rs 7-14: LogOutput
LogOutput(kind, message) ==
    [ok |-> TRUE, kind |-> kind, value |-> message, error |-> "", column |-> 0,
     contents |-> None]

\* result of decode with the decoder state it leaves
Decoded(r, st) == [tag |-> r.tag, item |-> r.item, src |-> r.src, state |-> st]

\* read.rs 74-75: u32::from_be_bytes(..) as usize; four bytes never exceed a u32
from_be_bytes(b) == ((b[1] * 256 + b[2]) * 256 + b[3]) * 256 + b[4]

\* faulty variant: the payload is taken one byte short
waiting_payload_Short(typ, length, buf) ==
    IF Len(buf) < length
    THEN Decoded(None_(buf), WaitingPayload(typ, length))
    ELSE LET message == SubSeq(buf, 1, IF length > 0 THEN length - 1 ELSE 0)
             rest == SubSeq(buf, (IF length > 0 THEN length - 1 ELSE 0) + 1, Len(buf))
         IN Decoded(Some_(LogOutput(CASE typ = 0 -> "StdIn" [] typ = 1 -> "StdOut"
                                      [] OTHER -> "StdErr", message), rest),
                    WaitingHeader)
\* faulty variant: a partial payload is taken out of the buffer
waiting_payload_Consume(typ, length, buf) ==
    IF Len(buf) < length
    THEN Decoded(None_(<<>>), WaitingPayload(typ, length - Len(buf)))
    ELSE LET message == SubSeq(buf, 1, length)
             rest == SubSeq(buf, length + 1, Len(buf))
         IN Decoded(Some_(LogOutput(CASE typ = 0 -> "StdIn" [] typ = 1 -> "StdOut"
                                      [] OTHER -> "StdErr", message), rest),
                    WaitingHeader)
\* read.rs 78-95: the WaitingPayload arm
waiting_payload(typ, length, buf) ==
    IF Len(buf) < length
    THEN Decoded(None_(buf), WaitingPayload(typ, length))
    ELSE LET message == SubSeq(buf, 1, length)
             rest == SubSeq(buf, length + 1, Len(buf))
         IN CASE typ = 0 -> Decoded(Some_(LogOutput("StdIn", message), rest), WaitingHeader)
              [] typ = 1 -> Decoded(Some_(LogOutput("StdOut", message), rest), WaitingHeader)
              [] typ = 2 -> Decoded(Some_(LogOutput("StdErr", message), rest), WaitingHeader)
              [] OTHER -> Decoded(Err_("unreachable", buf), WaitingPayload(typ, length))

\* faulty variant: raw text is emitted without waiting for its newline
raw_text_Eager(buf) ==
    Decoded(Some_(LogOutput("Console", buf), <<>>), WaitingHeader)
\* read.rs 53-65: the buffer starts with a byte above 2
raw_text(buf) ==
    IF is_tcp THEN Decoded(Some_(LogOutput("Console", buf), <<>>), WaitingHeader)
    ELSE LET pos == position(buf, 1) IN
         IF pos # 0
         THEN Decoded(Some_(LogOutput("Console", SubSeq(buf, 1, pos)),
                            SubSeq(buf, pos + 1, Len(buf))), WaitingHeader)
         ELSE Decoded(None_(buf), WaitingHeader)

\* faulty variant: a first byte of 3 is taken for a frame type
frame_decode_Above3(st, buf) ==
    IF st.tag = "WaitingHeader"
    THEN IF buf # <<>> /\ buf[1] > 3 THEN raw_text(buf)
         ELSE IF Len(buf) < 8 THEN Decoded(None_(buf), WaitingHeader)
         ELSE LET header == SubSeq(buf, 1, 8)
                  length == from_be_bytes(SubSeq(header, 5, 8))
              IN waiting_payload(header[1], length, SubSeq(buf, 9, Len(buf)))
    ELSE waiting_payload(st.typ, st.length, buf)
\* read.rs 48-97: NewlineLogOutputDecoder::decode
frame_decode(st, buf) ==
    IF st.tag = "WaitingHeader"
    THEN IF buf # <<>> /\ buf[1] > 2 THEN raw_text(buf)
         ELSE IF Len(buf) < 8 THEN Decoded(None_(buf), WaitingHeader)
         ELSE LET header == SubSeq(buf, 1, 8)
                  length == from_be_bytes(SubSeq(header, 5, 8))
              IN waiting_payload(header[1], length, SubSeq(buf, 9, Len(buf)))
    ELSE waiting_payload(st.typ, st.length, buf)

\* a frame as the runtime writes it: type, three zero bytes, length, payload
Frame(typ, payload) == <<typ, 0, 0, 0, 0, 0, 0, Len(payload)>> \o payload

\* payloads: none, a letter, and bytes that look like a type byte followed
\* by a line of text
FrameTexts ==
    { Frame(typ, payload) : typ \in {0, 1, 2},
                            payload \in {<<>>, <<65>>, <<1, 65, NL>>} }

\* unframed text, ended by a newline; the last one has the shape of a frame
\* whose type byte is 3
RawLines == { <<65, NL>>, <<65, 1, NL>>, Frame(3, <<65, NL>>) }

FrameBodies == UNION { [1..n -> FrameTexts \cup RawLines] : n \in 1..MaxFrames }

InitFrames ==
    /\ upstream \in FrameBodies
    /\ pending = Flatten(upstream)
    /\ src = <<>>
    /\ out = <<>>
    /\ dstate = WaitingHeader
    /\ fr = FramedNew
    /\ BuildAtRest
    /\ RequestAtRest

FrameDecode ==
    /\ fr.is_readable /\ ~fr.eof /\ ~fr.ended
    /\ Framing(frame_decode(dstate, src))
    /\ dstate' = frame_decode(dstate, src).state
    /\ UNCHANGED <<build_vars, request_vars, upstream, pending>>

FrameDecodeEof ==
    /\ fr.is_readable /\ fr.eof /\ ~fr.ended
    /\ Pausing(decode_eof(frame_decode(dstate, src)))
    /\ dstate' = frame_decode(dstate, src).state
    /\ UNCHANGED <<build_vars, request_vars, upstream, pending>>

NextFrames ==
    \/ \E n \in 1..Len(pending) : ReadChunk(n)
    \/ ReadEof
    \/ FrameDecode
    \/ FrameDecodeEof

SpecFrames == InitFrames /\ [][NextFrames]_vars

(***************************************************************************)
(* C19: for every body made of well-formed frames only and every way of    *)
(* cutting it into reads, the items yielded so far are always the first    *)
(* frames of the body in order, each of the kind of its type byte with the *)
(* bytes after its header as payload; when the stream has ended every      *)
(* frame has been yielded; and a step that yields an item leaves the       *)
(* decoder in WaitingHeader.                                               *)
(***************************************************************************)
OnlyFrames == \A i \in 1..Len(upstream) : upstream[i] \in FrameTexts

FrameExpected ==
    [i \in 1..Len(upstream) |->
        LogOutput(CASE upstream[i][1] = 0 -> "StdIn"
                    [] upstream[i][1] = 1 -> "StdOut"
                    [] OTHER -> "StdErr",
                  SubSeq(upstream[i], 9, Len(upstream[i])))]

C19_ItemPerFrame ==
    OnlyFrames => /\ IsPrefix(out, FrameExpected)
                  /\ fr.ended => out = FrameExpected

C19_BackInHeader ==
    (OnlyFrames /\ out' # out) => dstate' = WaitingHeader

C19_FramesDecoded == []C19_ItemPerFrame /\ [][C19_BackInHeader]_vars

C19_Witness ==
    /\ upstream = <<Frame(1, <<1, 65, NL>>), Frame(2, <<>>)>>
    /\ fr.ended
    /\ out = <<LogOutput("StdOut", <<1, 65, NL>>), LogOutput("StdErr", <<>>)>>
    /\ dstate = WaitingHeader

(***************************************************************************)
(* C20: when decode is called in WaitingHeader on a buffer whose first     *)
(* byte is above 2, it yields one Console item holding the bytes up to and *)
(* including the first newline and removes exactly those bytes, or, with   *)
(* no newline buffered, yields no item and leaves the buffer as it is; the *)
(* decoder stays in WaitingHeader.                                         *)
(***************************************************************************)
C20_RawCall ==
    (fr.is_readable /\ ~fr.ended /\ dstate = WaitingHeader
        /\ src # <<>> /\ src[1] > 2) =>
        LET pos == position(src, 1) IN
        /\ dstate' = WaitingHeader
        /\ pos # 0 => /\ out' = Append(out, LogOutput("Console", SubSeq(src, 1, pos)))
                      /\ src' = SubSeq(src, pos + 1, Len(src))
        /\ pos = 0 => /\ src' = src
                      /\ ~fr.eof => (out' = out /\ ~fr'.is_readable /\ ~fr'.ended)
                      /\ \A i \in 1..Len(out') : i > Len(out) => ~out'[i].ok

C20_RawPassthrough == [][C20_RawCall]_vars

C20_Witness ==
    /\ out = <<LogOutput("Console", <<65, 1, NL>>)>>
    /\ src = <<65>>
    /\ dstate = WaitingHeader
    /\ ~fr.is_readable

(***************************************************************************)
(* uri.rs 23-68: Uri::parse, called by Docker::build_request (docker.rs    *)
(* 264-286).  req holds the arguments of the call and, once it has run,    *)
(* the URI it returned.  A socket path is a sequence of bytes, a request   *)
(* path the sequence of its segments (every path of container.rs starts    *)
(* with a slash), a query the sequence of its key and value pairs.         *)
(***************************************************************************)
\* docker.rs 45-48: API_DEFAULT_VERSION, and versions around it
ClientVersions ==
    { [major_version |-> 1, minor_version |-> m] : m \in {41, 42, 43} }

\* "/var/run/docker.sock" (docker.rs 40) and "/d.sock"
SocketPaths ==
    { <<47, 118, 97, 114, 47, 114, 117, 110, 47, 100, 111, 99, 107, 101, 114,
        46, 115, 111, 99, 107>>,
      <<47, 100, 46, 115, 111, 99, 107>> }

\* container.rs 71, 89, 107, and /version
RequestPaths ==
    { <<"containers", "create">>, <<"containers", "build", "start">>,
      <<"containers", "build", "wait">>, <<"version">> }

\* Option<T: Serialize>, container.rs 64, 84, 102
Queries ==
    { None, Some(<<>>), Some(<< <<"name", "build">> >>),
      Some(<< <<"condition", "not-running">>, <<"name", "build">> >>) }

HexDigits ==
    <<"0", "1", "2", "3", "4", "5", "6", "7", "8", "9", "a", "b", "c", "d", "e", "f">>

\* uri.rs 55-62: hex::encode
socket_host(socket) ==
    Flatten([i \in 1..Len(socket) |->
                <<HexDigits[(socket[i] \div 16) + 1], HexDigits[(socket[i] % 16) + 1]>>])

\* uri.rs 64-68
socket_scheme == "unix"

\* uri.rs 46: serde_urlencoded::to_string, for keys and values without
\* reserved characters
RECURSIVE to_string(_)
to_string(pairs) ==
    IF pairs = <<>> THEN ""
    ELSE Head(pairs)[1] \o "=" \o Head(pairs)[2]
           \o (IF Tail(pairs) = <<>> THEN "" ELSE "&" \o to_string(Tail(pairs)))

\* uri.rs 34-42: Url::parse of scheme://host/v{major}.{minor}{path}
host_str(socket, path, client_version) ==
    [scheme |-> socket_scheme,
     host |-> socket_host(socket),
     path |-> <<"v" \o ToString(client_version.major_version) \o "."
                    \o ToString(client_version.minor_version)>> \o path,
     query |-> None]

\* uri.rs 43: Url::join of a reference that starts with a slash: the path
\* of the reference replaces the path of the base
join(url, path) == [url EXCEPT !.path = path]

\* uri.rs 23-53
Uri_parse(socket, path, query, client_version) ==
    LET url == join(host_str(socket, path, client_version), path) IN
    IF query.some THEN [url EXCEPT !.query = Some(to_string(query.names))]
    ELSE url

InitUri ==
    /\ req \in { [phase |-> "args", socket |-> s, path |-> p, query |-> q,
                  client_version |-> v, uri |-> None] :
                    s \in SocketPaths, p \in RequestPaths, q \in Queries,
                    v \in ClientVersions }
    /\ BuildAtRest
    /\ StreamAtRest

\* docker.rs 274-280: build_request calls Uri::parse
ParseUri ==
    /\ req.phase = "args"
    /\ req' = [req EXCEPT !.phase = "parsed",
                          !.uri = Uri_parse(req.socket, req.path, req.query,
                                            req.client_version)]
    /\ UNCHANGED <<build_vars, stream_vars>>

NextUri == ParseUri

SpecUri == InitUri /\ [][NextUri]_vars

(***************************************************************************)
(* C21: the URI Uri::parse returns has the scheme unix, the hex encoding   *)
(* of the socket path as authority, a path that begins with                *)
(* /v{major}.{minor} followed by the request path, and a query exactly     *)
(* when one was given, which is then the serialized query.                 *)
(***************************************************************************)
C21_VersionSegment ==
    "v" \o ToString(req.client_version.major_version) \o "."
        \o ToString(req.client_version.minor_version)

C21_UriParsed ==
    req.phase = "parsed" =>
        /\ req.uri.scheme = "unix"
        /\ req.uri.host = socket_host(req.socket)
        /\ req.uri.query.some = req.query.some
        /\ req.query.some => req.uri.query.names = to_string(req.query.names)
        /\ IsPrefix(<<C21_VersionSegment>> \o req.path, req.uri.path)

(***************************************************************************)
(* build.rs 27-34: Build::new, generated by derive(new) for the public     *)
(* struct Build: it takes pipeline, state and completed_steps as given and *)
(* sets fail_through to false.  pipeline = <<>> stands for no Build yet.   *)
(***************************************************************************)
\* values of the parameter state: BuildState (core.rs 57-62)
NewStates ==
    { BuildReady, BuildRunning("build"), BuildFinished(BuildSucceeded),
      BuildFinished(BuildFailed) }

\* values of the parameter completed_steps: CompletedSteps (build.rs 26)
NewLedgers ==
    { <<>>, << <<"build", StepSucceeded>> >>, << <<"build", StepFailed(2)>> >> }

InitNew == BuildAtRest /\ RequestAtRest /\ StreamAtRest

\* build.rs 27-34: Build::new(pipeline, state, completed_steps)
BuildNew(pl, st, ledger) ==
    /\ pipeline = <<>>
    /\ pipeline' = pl
    /\ state' = st
    /\ completed_steps' = ledger
    /\ fail_through' = FALSE
    /\ UNCHANGED <<panicked, requests, assigned, entry, wait_stream, empty_waits,
                   extra_items, all_ok, request_vars, stream_vars>>

NextNew ==
    \/ \E pl \in Pipelines, st \in NewStates, ledger \in NewLedgers :
          BuildNew(pl, st, ledger)
    \/ pipeline # <<>> /\ Next

SpecNew == InitNew /\ [][NextNew]_vars

(***************************************************************************)
(* C22: a Build on which progress has not yet been called is in Ready,     *)
(* with an empty ledger and the latch clear.                               *)
(***************************************************************************)
C22_StartsReady ==
    (pipeline # <<>> /\ entry = NoCall) =>
        /\ state = BuildReady
        /\ completed_steps = <<>>
        /\ ~fail_through

(***************************************************************************)
(* C23: a call in Running(name) whose wait yields one normal record with   *)
(* exit code c adds exactly (name, Succeeded) to the ledger when c = 0 and *)
(* (name, Failed(c)) otherwise, ends in Ready and leaves the latch as it   *)
(* was; the call after it creates the next step, and starts it when the    *)
(* create succeeded.                                                       *)
(***************************************************************************)
C23_RecordCall ==
    (state.tag = "BuildRunning" /\ Len(wait_stream') = 1 /\ wait_stream'[1].ok) =>
        /\ completed_steps' =
              Append(completed_steps,
                     <<state.step, IF wait_stream'[1].code = 0
                                   THEN StepSucceeded
                                   ELSE StepFailed(wait_stream'[1].code)>>)
        /\ state' = BuildReady
        /\ assigned' = <<BuildReady>>
        /\ fail_through' = fail_through

C23_NextStepRuns ==
    (/\ entry.tag = "BuildRunning" /\ Len(wait_stream) = 1 /\ wait_stream[1].ok
     /\ ~fail_through /\ Missing # {} /\ requests' # requests) =>
        /\ NewRequests[1].op = "create"
        /\ NewRequests[1].step = pipeline[FirstMissing].name
        /\ NewRequests[1].result = "Ok" =>
              /\ Len(NewRequests) = 2
              /\ NewRequests[2].op = "start"
              /\ NewRequests[2].step = pipeline[FirstMissing].name

C23_RecordLeavesLatch == [][C23_RecordCall /\ C23_NextStepRuns]_vars

C23_Witness ==
    /\ Len(pipeline) >= 2
    /\ completed_steps = <<<<pipeline[1].name, StepFailed(2)>>>>
    /\ entry = BuildReady
    /\ state = BuildRunning(pipeline[2].name)
    /\ ~fail_through

(***************************************************************************)
(* C24: in every reachable ledger each Skipped entry has a Failed(code)    *)
(* entry before it.                                                        *)
(***************************************************************************)
C24_SkippedAfterFailed ==
    \A i \in 1..Len(completed_steps) :
        completed_steps[i][2] = StepSkipped =>
            \E j \in 1..(i - 1) : completed_steps[j][2].tag = "StepFailed"

C24_Witness ==
    /\ Len(completed_steps) = 3
    /\ completed_steps[1][2] = StepSucceeded
    /\ completed_steps[2][2] = StepFailed(2)
    /\ completed_steps[3][2] = StepSkipped

(***************************************************************************)
(* C25: when a build that started in Ready with an empty ledger is         *)
(* Finished(Succeeded), the ledger has one entry for each step of the      *)
(* pipeline, in pipeline order, each Succeeded, Failed(code) or Skipped.   *)
(***************************************************************************)
C25_OneEntryPerStep ==
    state = BuildFinished(BuildSucceeded) =>
        /\ Len(completed_steps) = Len(pipeline)
        /\ \A i \in 1..Len(completed_steps) :
              /\ completed_steps[i][1] = pipeline[i].name
              /\ completed_steps[i][2].tag \in {"StepSucceeded", "StepFailed", "StepSkipped"}

(***************************************************************************)
(* C26: over the whole life of a Build at most one create request and at   *)
(* most one start request are issued for each pipeline step; a request     *)
(* that failed or timed out is the last request the Build issues.          *)
(***************************************************************************)
Count(op, name) ==
    Cardinality({ r \in 1..Len(requests) :
                    requests[r].op = op /\ requests[r].step = name })

C26_AtMostOnce ==
    \A i \in 1..Len(pipeline) :
        /\ Count("create", pipeline[i].name) <= 1
        /\ Count("start", pipeline[i].name) <= 1

C26_FailedIsLast ==
    \A r \in 1..Len(requests) :
        requests[r].result \in GatewayErrors => r = Len(requests)

C26_NeverRetried == C26_AtMostOnce /\ C26_FailedIsLast

C26_Witness ==
    /\ panicked
    /\ Len(pipeline) = 2
    /\ Count("create", pipeline[1].name) = 1
    /\ Count("start", pipeline[1].name) = 1
    /\ Count("create", pipeline[2].name) = 1
    /\ requests[Len(requests)] = Request("create", pipeline[2].name, "RequestTimeoutError")

(***************************************************************************)
(* C27: when the buffer holds a newline and the bytes before the first     *)
(* newline are an incomplete JSON value, the decoder emits nothing and     *)
(* leaves every buffered byte, that newline included, in the buffer in the *)
(* same order.                                                             *)
(***************************************************************************)
FirstLine == SubSeq(src, 1, position(src, 1) - 1)

C27_IncompleteLine ==
    (/\ fr.is_readable /\ ~fr.eof /\ ~fr.ended
     /\ position(src, 1) # 0
     /\ FirstLine # <<>>
     /\ from_slice(dstate.ty, FirstLine).category = "Eof") =>
        /\ out' = out
        /\ src' = src

C27_BufferRetained == [][C27_IncompleteLine]_vars

(***************************************************************************)
(* C28: when the bytes before the first newline fail to parse with a       *)
(* syntax error or a type error, the decoder yields an error of the        *)
(* decode-error kind that carries the offending offset and the raw text of *)
(* that line, for both kinds of failure, and no item.                      *)
(***************************************************************************)
C28_MalformedLine ==
    (/\ fr.is_readable /\ ~fr.ended
     /\ position(src, 1) # 0
     /\ from_slice(dstate.ty, FirstLine).category \in {"Syntax", "Data"}) =>
        /\ Len(out') = Len(out) + 1
        /\ LET e == out'[Len(out')] IN
              /\ ~e.ok
              /\ e.error = "JsonDataError"
              /\ e.column = from_slice(dstate.ty, FirstLine).column
              /\ e.contents = Some(FirstLine)

C28_DecodeError == [][C28_MalformedLine]_vars

(***************************************************************************)
(* C29: called in WaitingHeader with fewer than 8 buffered bytes (the      *)
(* buffer empty or its first byte in {0, 1, 2}), or in                     *)
(* WaitingPayload(type, length) with fewer than length buffered bytes, the *)
(* frame decoder returns no item and no error and leaves the buffer and    *)
(* its state unchanged; while the body has not ended the stream yields     *)
(* nothing and goes on to read.                                            *)
(***************************************************************************)
C29_Partial ==
    \/ dstate = WaitingHeader /\ Len(src) < 8 /\ (src = <<>> \/ src[1] \in {0, 1, 2})
    \/ dstate.tag = "WaitingPayload" /\ Len(src) < dstate.length

C29_PartialCall ==
    (fr.is_readable /\ ~fr.ended /\ C29_Partial) =>
        /\ frame_decode(dstate, src).tag = "None"
        /\ src' = src
        /\ dstate' = dstate
        /\ ~fr.eof => (out' = out /\ ~fr'.is_readable /\ ~fr'.ended)
        /\ \A i \in 1..Len(out') : i > Len(out) => out'[i] = ErrItem("bytes remaining on stream")

C29_PartialFrameKept == [][C29_PartialCall]_vars

C29_Witness ==
    /\ dstate = WaitingPayload(1, 3)
    /\ src = <<1>>
    /\ out = <<>>
    /\ ~fr.is_readable /\ ~fr.ended

(***************************************************************************)
(* C30: whenever the state is Running(name), name is the first pipeline    *)
(* step without a ledger entry, the latch is clear, and the call that      *)
(* entered Running issued the create of that step and then its start, both *)
(* successful; the Build has since issued only waits for that step.        *)
(***************************************************************************)
C30_RunningStep ==
    state.tag = "BuildRunning" =>
        /\ Missing # {}
        /\ state.step = pipeline[FirstMissing].name
        /\ ~fail_through
        /\ \E r \in 1..(Len(requests) - 1) :
              /\ requests[r] = Request("create", state.step, "Ok")
              /\ requests[r + 1] = Request("start", state.step, "Ok")
              /\ \A q \in (r + 2)..Len(requests) :
                    requests[q].op = "wait" /\ requests[q].step = state.step

C30_EnteredByRun ==
    (state.tag # "BuildRunning" /\ state'.tag = "BuildRunning") =>
        /\ state = BuildReady
        /\ NewRequests = <<Request("create", state'.step, "Ok"),
                           Request("start", state'.step, "Ok")>>

C30_RunningInvariant == []C30_RunningStep /\ [][C30_EnteredByRun]_vars

C30_Witness ==
    /\ Len(pipeline) = 3
    /\ Len(completed_steps) = 1
    /\ state = BuildRunning(pipeline[2].name)
    /\ entry = BuildRunning(pipeline[2].name)

(***************************************************************************)
(* C31: a call in Running(name) whose wait stream ends without an item     *)
(* issues the one wait request, assigns nothing, and leaves the state      *)
(* Running(name), the ledger and the latch as they were; the call after it *)
(* issues a new wait request for the same step.                            *)
(***************************************************************************)
C31_EmptyWaitCall ==
    (state.tag = "BuildRunning" /\ requests' # requests /\ wait_stream' = <<>>) =>
        /\ NewRequests = <<Request("wait", state.step, "")>>
        /\ assigned' = <<>>
        /\ state' = state
        /\ completed_steps' = completed_steps
        /\ fail_through' = fail_through

C31_CallAfterEmptyWait ==
    (/\ entry.tag = "BuildRunning" /\ wait_stream = <<>> /\ ~panicked
     /\ requests' # requests) =>
        /\ state = entry
        /\ NewRequests = <<Request("wait", entry.step, "")>>

C31_EmptyWaitStays == [][C31_EmptyWaitCall /\ C31_CallAfterEmptyWait]_vars

C31_Witness ==
    /\ Len(pipeline) = 2
    /\ completed_steps = <<<<pipeline[1].name, StepSucceeded>>>>
    /\ entry = BuildRunning(pipeline[2].name)
    /\ state = BuildRunning(pipeline[2].name)
    /\ wait_stream = <<>>
    /\ ~fail_through
    /\ Count("wait", pipeline[2].name) = 1

(***************************************************************************)
(* C32: in every reachable state of the frame decoder the type byte held   *)
(* in WaitingPayload(type, length) is 0, 1 or 2, and the unreachable!()    *)
(* arm of the payload match is never executed.                             *)
(***************************************************************************)
C32_TypeByte == dstate.tag = "WaitingPayload" => dstate.typ \in {0, 1, 2}

C32_NoPanic == \A i \in 1..Len(out) : out[i].error # "unreachable"

C32_UnreachableArm == C32_TypeByte /\ C32_NoPanic

C32_Witness ==
    /\ upstream = <<Frame(3, <<65, NL>>), Frame(2, <<1, 65, NL>>)>>
    /\ out = <<LogOutput("Console", Frame(3, <<65, NL>>))>>
    /\ dstate = WaitingPayload(2, 3)
    /\ src = <<1, 65>>

====
